---- MODULE Spec2Model ----
(***************************************************************************)
(* chroma-curator: the profiling / export pipeline of cli.py and the      *)
(* similarity helpers of chroma_curator/core.py.                          *)
(*                                                                         *)
(* Python containers are 0-based, TLA+ sequences 1-based: a row label or  *)
(* a position i of the code is kept 0-based and read as seq[i + 1].       *)
(* A dict is a set of <<key, value>> pairs.                               *)
(***************************************************************************)
EXTENDS Integers, Sequences, FiniteSets, TLC

VARIABLES
    pc,           \* position of the caller: start, profiled, exported, main_done
    batch,        \* the collection: a sequence of stored records
    profile,      \* profile_collection: summary dict
    df,           \* profile_collection: the metadata table
    embeddings,   \* profile_collection: the raw vectors, by fetch position
    docs,         \* profile_collection: the raw documents, by fetch position
    ids,          \* profile_collection: the raw ids, by fetch position
    call,         \* the arguments of the export_for_edge call that ran
    export_list,  \* export_for_edge: the returned entries
    selected_idx, \* export_for_edge: the row label (idx) behind each entry
    err,          \* the exception that ended the call, or NoError
    edge_file,    \* contents of export_for_edge.json
    profile_file, \* contents of chroma_profile.json
    query,        \* top_similar_vectors: the query vector
    records,      \* top_similar_vectors: the record list
    top_k,        \* top_similar_vectors: the top_k argument
    scored,       \* top_similar_vectors: the similarities, in record order
    result,       \* top_similar_vectors: the returned records
    sim           \* cosine_similarity: the last call (v1, v2, returned value)

vars == <<pc, batch, profile, df, embeddings, docs, ids, call, export_list,
          selected_idx, err, edge_file, profile_file, query, records, top_k,
          scored, result, sim>>

curVars == <<batch, profile, df, embeddings, docs, ids, call, export_list,
             selected_idx, err, edge_file, profile_file>>

simVars == <<query, records, top_k, scored, result, sim>>

-----------------------------------------------------------------------------
(* Bounds and input domains *)

MaxBatch == 2
MaxTopN == 2
MaxRecords == 3
MaxK == 4

None == "<None>"
NaN == "<NaN>"
NoError == "ok"
NotWritten == "<no file>"

Ids == {"a", "b"}
PublishedValues == {"2023-05-01", "2024-05-01", "n/a"}
Documents == {None, "", "x", "xx"}

\* metadata dicts: the "published" key is present or absent
Metas == {{}} \cup {{<<"published", v>>} : v \in PublishedValues}

Keys(d) == {p[1] : p \in d}
Get(d, k) == (CHOOSE p \in d : p[1] = k)[2]

\* a stored record; its embedding is fixed by its fetch position (VectorAt)
Records == [id : Ids, meta : Metas, document : Documents]
VectorAt(i) == <<i, 1>>

Batches == UNION {[1..n -> Records] : n \in 0..MaxBatch}

RECURSIVE FilterPos(_, _, _)
\* the subsequence of s at the positions of S that are >= from, in order
FilterPos(s, S, from) ==
    IF from > Len(s) THEN <<>>
    ELSE (IF from \in S THEN <<s[from]>> ELSE <<>>) \o FilterPos(s, S, from + 1)

Min(a, b) == IF a < b THEN a ELSE b

-----------------------------------------------------------------------------
(* pandas DataFrame: columns (a set of names) and rows; a row carries its   *)
(* index label idx and one cell per column (NaN where the record lacks it). *)

EmptyFrame == [columns |-> {}, rows |-> <<>>]
NaT == [valid |-> FALSE, t |-> 0]

\* DataFrame.empty
IsEmpty(d) == Len(d.rows) = 0 \/ d.columns = {}

\* has_doc / doc_len of one document
has_doc(d) == d # None /\ Len(d) > 0
doc_len(d) == IF d # None /\ d # "" THEN Len(d) ELSE 0

\* pd.DataFrame(metas): one column per key any record carries
FrameColumns(b) == UNION {Keys(b[i].meta) : i \in 1..Len(b)}

BuildRow(b, i) ==
    [idx |-> i - 1,
     id |-> b[i].id,
     published |-> IF "published" \in Keys(b[i].meta)
                   THEN Get(b[i].meta, "published") ELSE NaN,
     has_doc |-> has_doc(b[i].document),
     doc_len |-> doc_len(b[i].document),
     published_dt |-> NaT]

CountOf(s, v) == Cardinality({i \in 1..Len(s) : s[i] = v})

\* profile_collection(collection)
profile_collection(b) ==
    IF Len(b) = 0
    THEN [profile |-> {}, df |-> EmptyFrame, embeddings |-> <<>>,
          docs |-> <<>>, ids |-> <<>>]
    ELSE LET idseq == [i \in 1..Len(b) |-> b[i].id]
             cols == (FrameColumns(b) \ {"id"}) \cup {"id", "has_doc", "doc_len"}
         IN [profile |->
                {<<"num_records", Len(b)>>,
                 <<"embedding_dim", Len(VectorAt(0))>>,
                 <<"unique_ids", Cardinality({idseq[i] : i \in 1..Len(b)})>>,
                 <<"duplicate_ids",
                   FilterPos(idseq,
                       {i \in 1..Len(b) :
                           /\ CountOf(idseq, idseq[i]) > 1
                           /\ \A j \in 1..(i - 1) : idseq[j] # idseq[i]}, 1)>>},
             df |-> [columns |-> cols,
                     rows |-> [i \in 1..Len(b) |-> BuildRow(b, i)]],
             embeddings |-> [i \in 1..Len(b) |-> VectorAt(i - 1)],
             docs |-> [i \in 1..Len(b) |-> b[i].document],
             ids |-> idseq]

-----------------------------------------------------------------------------
(* export_for_edge *)

DefaultTopN == 2048
DefaultKeyFields ==
    <<"id", "title", "summary", "cve_id", "published", "source", "severity">>
KeyFieldChoices == {DefaultKeyFields, <<"id", "title">>}

\* pd.to_datetime(value, errors='coerce'): an ISO date becomes its day
\* number, anything else (NaN included) becomes NaT
to_datetime(s) ==
    CASE s = "2023-05-01" -> [valid |-> TRUE, t |-> 20230501]
      [] s = "2024-05-01" -> [valid |-> TRUE, t |-> 20240501]
      [] OTHER -> NaT

\* drop_duplicates with keep='last'
drop_duplicates_last(d) ==
    IF IsEmpty(d) THEN d
    ELSE [d EXCEPT !.rows =
            FilterPos(d.rows,
                {i \in 1..Len(d.rows) :
                    \A j \in (i + 1)..Len(d.rows) : d.rows[j].id # d.rows[i].id}, 1)]

\* df.drop_duplicates(subset=['id']): keep='first'
drop_duplicates(d) ==
    IF IsEmpty(d) THEN d
    ELSE [d EXCEPT !.rows =
            FilterPos(d.rows,
                {i \in 1..Len(d.rows) :
                    \A j \in 1..(i - 1) : d.rows[j].id # d.rows[i].id}, 1)]

\* df['published_dt'] = pd.to_datetime(df['published'], errors='coerce')
add_published_dt(d) ==
    [columns |-> d.columns \cup {"published_dt"},
     rows |-> [i \in 1..Len(d.rows) |->
                [d.rows[i] EXCEPT !.published_dt = to_datetime(d.rows[i].published)]]]

Perms(n) == {p \in [1..n -> 1..n] : \A i, j \in 1..n : i # j => p[i] # p[j]}

\* isna / value of the sort key col in row r
KeyIsNa(r, col) == IF col = "published_dt" THEN ~r.published_dt.valid ELSE FALSE
KeyOf(r, col) == IF col = "published_dt" THEN r.published_dt.t ELSE r[col]

\* rows taken in the order p are sorted descending by col with the missing
\* keys last; missing keys keep their relative order (nargsort appends them)
IsSortedDesc(rows, p, col) ==
    \A i, j \in 1..Len(rows) : i < j =>
        LET a == rows[p[i]]
            b == rows[p[j]]
        IN /\ KeyIsNa(a, col) => KeyIsNa(b, col)
           /\ (~KeyIsNa(a, col) /\ ~KeyIsNa(b, col)) => KeyOf(a, col) >= KeyOf(b, col)
           /\ (KeyIsNa(a, col) /\ KeyIsNa(b, col)) => p[i] < p[j]

\* df.sort_values(col, ascending=False), kind='quicksort': the order of rows
\* with equal keys is not specified, so every sorted arrangement is an outcome
sort_values(rows, col) ==
    {[i \in 1..Len(rows) |-> rows[p[i]]] :
        p \in {q \in Perms(Len(rows)) : IsSortedDesc(rows, q, col)}}

\* the two sorts of export_for_edge, applied to the deduplicated frame
sort_by_published(d) ==
    IF "published" \in d.columns
    THEN {[columns |-> d.columns \cup {"published_dt"}, rows |-> s] :
            s \in sort_values(add_published_dt(d).rows, "published_dt")}
    ELSE {d}

sort_by_doc_len(d) ==
    {[d EXCEPT !.rows = s] : s \in sort_values(d.rows, "doc_len")}

\* head that ignores top_n
head_all(rows, n) == rows

\* df.head(top_n)
head(rows, n) == SubSeq(rows, 1, Min(n, Len(rows)))

\* {k: row.get(k, None) for k in key_fields if k in row}
project(row, columns, key_fields) ==
    {<<key_fields[j], row[key_fields[j]]>> :
        j \in {x \in 1..Len(key_fields) : key_fields[x] \in columns}}

\* list(df.index).index(idx)
position_of(rows, idx) == (CHOOSE i \in 1..Len(rows) : rows[i].idx = idx) - 1

\* one entry of export_list, for the row labelled idx of the sorted frame
build_entry(d, row, emb, dcs, key_fields) ==
    LET i == position_of(d.rows, row.idx)
    IN [fields |-> project(row, d.columns, key_fields),
        vector |-> emb[i + 1],
        document |-> dcs[i + 1]]

Raised(e) == [err |-> e, export_list |-> <<>>, selected_idx |-> <<>>]

\* export_for_edge(df, embeddings, docs, ids, top_n, key_fields): the set of
\* its outcomes (one per arrangement the sorts may produce)
export_for_edge(d, emb, dcs, top_n, key_fields) ==
    LET d1 == drop_duplicates(d) IN
    IF (~IsEmpty(d) /\ "id" \notin d.columns) \/ "doc_len" \notin d1.columns
    THEN {Raised("KeyError")}
    ELSE UNION {
        {LET selected == head(d3.rows, top_n) IN
            IF Len(selected) > Len(emb) \/ Len(selected) > Len(dcs)
            THEN Raised("IndexError")
            ELSE [err |-> NoError,
                  export_list |-> [n \in 1..Len(selected) |->
                        build_entry(d3, selected[n], emb, dcs, key_fields)],
                  selected_idx |-> [n \in 1..Len(selected) |-> selected[n].idx]]
         : d3 \in sort_by_doc_len(d2)}
        : d2 \in sort_by_published(d1)}

\* df[df['has_doc']]
filter_has_doc(d) == [d EXCEPT !.rows =
    FilterPos(d.rows, {i \in 1..Len(d.rows) : d.rows[i].has_doc}, 1)]

-----------------------------------------------------------------------------
(* chroma_curator/core.py *)

\* Vectors with integral components and an integral Euclidean norm: on these
\* np.dot and np.linalg.norm are exact in floating point, and the one rounded
\* division of cosine_similarity maps equal quotients to equal floats and
\* different quotients to different floats. A float is kept as the reduced
\* fraction num/den (den > 0); den = 0 stands for a division by zero.
Vecs == {<<0, 0>>, <<1, 0>>, <<2, 0>>, <<0, 1>>, <<-1, 0>>, <<3, 4>>, <<4, 3>>}

Zero == [num |-> 0, den |-> 1]
NoCall == [v1 |-> <<>>, v2 |-> <<>>, value |-> Zero]

Abs(x) == IF x < 0 THEN -x ELSE x

RECURSIVE gcd(_, _)
gcd(a, b) == IF b = 0 THEN a ELSE gcd(b, a % b)

\* float(num) / float(denom)
Divide(num, denom) ==
    IF denom = 0 THEN [num |-> num, den |-> 0]
    ELSE IF num = 0 THEN Zero
    ELSE LET g == gcd(Abs(num), denom)
         IN [num |-> num \div g, den |-> denom \div g]

ScoreLess(a, b) == a.num * b.den < b.num * a.den

RECURSIVE Dot(_, _)
\* np.dot(v1, v2)
Dot(v1, v2) ==
    IF Len(v1) = 0 THEN 0
    ELSE Head(v1) * Head(v2) + Dot(Tail(v1), Tail(v2))

\* np.linalg.norm(v)
Norm(v) == CHOOSE n \in 0..Dot(v, v) : n * n = Dot(v, v)

\* cosine_similarity without the zero-denominator guard
cosine_no_guard(v1, v2) == Divide(Dot(v1, v2), Norm(v1) * Norm(v2))

\* cosine_similarity without the normalisation
cosine_dot_only(v1, v2) == Divide(Dot(v1, v2), 1)

\* cosine_similarity(v1, v2)
cosine_similarity(v1, v2) ==
    LET num == Dot(v1, v2)
        denom == Norm(v1) * Norm(v2)
    IN IF denom = 0 THEN Zero ELSE Divide(num, denom)

RECURSIVE insert_reversed_ties(_, _)
\* insert_desc placing x before the elements of equal similarity
insert_reversed_ties(s, x) ==
    IF s = <<>> THEN <<x>>
    ELSE IF ~ScoreLess(x[1], Head(s)[1]) THEN <<x>> \o s
    ELSE <<Head(s)>> \o insert_reversed_ties(Tail(s), x)

RECURSIVE insert_desc(_, _)
\* one step of the stable descending sort: x, which came later in the list
\* than every element of s, goes after the elements of similarity >= its own
insert_desc(s, x) ==
    IF s = <<>> THEN <<x>>
    ELSE IF ScoreLess(Head(s)[1], x[1]) THEN <<x>> \o s
    ELSE <<Head(s)>> \o insert_desc(Tail(s), x)

RECURSIVE sort_reverse(_)
\* scored.sort(reverse=True, key=lambda x: x[0])
sort_reverse(s) ==
    IF s = <<>> THEN <<>>
    ELSE insert_desc(sort_reverse(SubSeq(s, 1, Len(s) - 1)), s[Len(s)])

\* s[:k]
slice_to(s, k) ==
    IF k >= 0 THEN SubSeq(s, 1, Min(k, Len(s)))
    ELSE SubSeq(s, 1, IF Len(s) + k > 0 THEN Len(s) + k ELSE 0)

\* the list scored before it is sorted: (sim, rec) per record
score_all(q, recs) ==
    [i \in 1..Len(recs) |-> <<cosine_similarity(q, recs[i].vector), recs[i]>>]

\* top_similar_vectors(query, records, top_k)
top_similar_vectors(q, recs, k) ==
    LET top == slice_to(sort_reverse(score_all(q, recs)), k)
    IN [i \in 1..Len(top) |-> top[i][2]]

\* record lists: the id of a record is its position in the list
RecordLists ==
    {[i \in 1..Len(vs) |-> [id |-> i, vector |-> vs[i]]] :
        vs \in UNION {[1..n -> Vecs] : n \in 0..MaxRecords}}

-----------------------------------------------------------------------------
Init ==
    /\ pc = "start"
    /\ batch \in Batches
    /\ profile = {}
    /\ df = EmptyFrame
    /\ embeddings = <<>>
    /\ docs = <<>>
    /\ ids = <<>>
    /\ call = [prefilter |-> FALSE, top_n |-> 0, key_fields |-> <<>>]
    /\ export_list = <<>>
    /\ selected_idx = <<>>
    /\ err = NoError
    /\ edge_file = NotWritten
    /\ profile_file = NotWritten
    /\ query = <<>>
    /\ records = <<>>
    /\ top_k = 0
    /\ scored = <<>>
    /\ result = <<>>
    /\ sim = NoCall

ProfileCollection ==
    /\ pc = "start"
    /\ LET r == profile_collection(batch) IN
        /\ profile' = r.profile
        /\ df' = r.df
        /\ embeddings' = r.embeddings
        /\ docs' = r.docs
        /\ ids' = r.ids
    /\ pc' = "profiled"
    /\ UNCHANGED <<batch, call, export_list, selected_idx, err, edge_file,
                   profile_file, simVars>>

\* a caller of export_for_edge on the profiled table, or on its has_doc rows
ExportForEdge ==
    /\ pc = "profiled"
    /\ \E prefilter \in BOOLEAN, top_n \in 1..MaxTopN, kf \in KeyFieldChoices :
        /\ call' = [prefilter |-> prefilter, top_n |-> top_n, key_fields |-> kf]
        /\ IF prefilter /\ "has_doc" \notin df.columns
           THEN /\ err' = "KeyError"
                /\ UNCHANGED <<export_list, selected_idx, edge_file>>
           ELSE \E o \in export_for_edge(
                        IF prefilter THEN filter_has_doc(df) ELSE df,
                        embeddings, docs, top_n, kf) :
                /\ err' = o.err
                /\ export_list' = o.export_list
                /\ selected_idx' = o.selected_idx
                /\ edge_file' = IF o.err = NoError THEN o.export_list ELSE edge_file
    /\ pc' = "exported"
    /\ UNCHANGED <<batch, profile, df, embeddings, docs, ids, profile_file, simVars>>

\* main(): profile, export the has_doc rows with top_n=2048, save the profile
Main ==
    /\ pc = "start"
    /\ LET r == profile_collection(batch) IN
        /\ profile' = r.profile
        /\ df' = r.df
        /\ embeddings' = r.embeddings
        /\ docs' = r.docs
        /\ ids' = r.ids
        /\ call' = [prefilter |-> TRUE, top_n |-> DefaultTopN,
                    key_fields |-> DefaultKeyFields]
        /\ IF "has_doc" \notin r.df.columns
           THEN /\ err' = "KeyError"
                /\ UNCHANGED <<export_list, selected_idx, edge_file, profile_file>>
           ELSE \E o \in export_for_edge(filter_has_doc(r.df), r.embeddings,
                                         r.docs, DefaultTopN, DefaultKeyFields) :
                /\ err' = o.err
                /\ export_list' = o.export_list
                /\ selected_idx' = o.selected_idx
                /\ edge_file' = IF o.err = NoError THEN o.export_list ELSE edge_file
                /\ profile_file' = IF o.err = NoError THEN r.profile ELSE profile_file
    /\ pc' = "main_done"
    /\ UNCHANGED <<batch, simVars>>

Next == ProfileCollection \/ ExportForEdge \/ Main

Spec == Init /\ [][Next]_vars

-----------------------------------------------------------------------------
(* the similarity helpers, called on their own *)

InitSim ==
    /\ pc = "sim_start"
    /\ query \in Vecs
    /\ records \in RecordLists
    /\ top_k \in (-1)..MaxK
    /\ scored = <<>>
    /\ result = <<>>
    /\ sim = NoCall
    /\ batch = <<>>
    /\ profile = {}
    /\ df = EmptyFrame
    /\ embeddings = <<>>
    /\ docs = <<>>
    /\ ids = <<>>
    /\ call = [prefilter |-> FALSE, top_n |-> 0, key_fields |-> <<>>]
    /\ export_list = <<>>
    /\ selected_idx = <<>>
    /\ err = NoError
    /\ edge_file = NotWritten
    /\ profile_file = NotWritten

CosineSimilarity ==
    /\ pc = "sim_start"
    /\ \E i \in 1..Len(records) :
        sim' = [v1 |-> query, v2 |-> records[i].vector,
                value |-> cosine_similarity(query, records[i].vector)]
    /\ pc' = "cos_done"
    /\ UNCHANGED <<curVars, query, records, top_k, scored, result>>

TopSimilarVectors ==
    /\ pc = "sim_start"
    /\ scored' = [i \in 1..Len(records) |-> score_all(query, records)[i][1]]
    /\ result' = top_similar_vectors(query, records, top_k)
    /\ pc' = "sim_done"
    /\ UNCHANGED <<curVars, query, records, top_k, sim>>

NextSim == CosineSimilarity \/ TopSimilarVectors

SpecSim == InitSim /\ [][NextSim]_vars

-----------------------------------------------------------------------------
(* Properties of the export pipeline, checked under Spec *)

Succeeded == pc \in {"exported", "main_done"} /\ err = NoError

\* the table the export_for_edge call received
InputTable == IF call.prefilter THEN filter_has_doc(df) ELSE df

RowOf(label) == df.rows[label + 1]
IdsOf(t) == {t.rows[i].id : i \in 1..Len(t.rows)}
FirstWithId(t, v) ==
    t.rows[CHOOSE i \in 1..Len(t.rows) :
            /\ t.rows[i].id = v
            /\ \A j \in 1..(i - 1) : t.rows[j].id # v]
Elems(seq) == {seq[i] : i \in 1..Len(seq)}
EntryId(e) == Get(e.fields, "id")

\* C1: the returned entries are ordered by parsed published date descending,
\* rows without a valid date after all rows with one, and doc_len descending
\* only among rows whose dates tie (all rows tie when there is no date).
C1_DateThenLength ==
    Succeeded =>
        \A n, m \in 1..Len(selected_idx) : n < m =>
            LET a == RowOf(selected_idx[n])
                b == RowOf(selected_idx[m])
                da == to_datetime(a.published)
                db == to_datetime(b.published)
            IN /\ db.valid => da.valid
               /\ (da.valid /\ db.valid) => da.t >= db.t
               /\ da = db => a.doc_len >= b.doc_len

\* C2: each entry's vector and document are those of the input record its
\* projected fields come from.
C2_VectorAndDocumentOfSourceRecord ==
    Succeeded =>
        \A n \in 1..Len(export_list) :
            /\ EntryId(export_list[n]) = ids[selected_idx[n] + 1]
            /\ export_list[n].vector = embeddings[selected_idx[n] + 1]
            /\ export_list[n].document = docs[selected_idx[n] + 1]

\* C3: one row per unique id is kept: no two entries share an id, an id of
\* the table is missing only through truncation, and an entry's projected
\* fields are those of the first row of the input table with its id.
C3_OneRowPerIdFirstKept ==
    Succeeded =>
        /\ \A n, m \in 1..Len(export_list) :
                n # m => EntryId(export_list[n]) # EntryId(export_list[m])
        /\ {EntryId(export_list[n]) : n \in 1..Len(export_list)} \subseteq IdsOf(InputTable)
        /\ call.top_n >= Cardinality(IdsOf(InputTable)) =>
                {EntryId(export_list[n]) : n \in 1..Len(export_list)} = IdsOf(InputTable)
        /\ \A n \in 1..Len(export_list) :
                LET first == FirstWithId(InputTable, EntryId(export_list[n]))
                IN \A p \in export_list[n].fields : p[2] = first[p[1]]

\* an exported id occurs twice in the input table, with different fields
C3_Witness ==
    /\ Succeeded
    /\ \E i, j \in 1..Len(InputTable.rows) :
        /\ i < j
        /\ InputTable.rows[i].id = InputTable.rows[j].id
        /\ InputTable.rows[i].published # InputTable.rows[j].published
        /\ \E n \in 1..Len(export_list) :
            EntryId(export_list[n]) = InputTable.rows[i].id

\* C4: for a positive cap the export has min(cap, number of distinct ids)
\* entries: at most cap, and exactly cap when more rows survive deduplication.
C4_LengthIsMinCapDistinct ==
    (Succeeded /\ call.top_n > 0) =>
        /\ Len(export_list) <= call.top_n
        /\ Len(export_list) = Min(call.top_n, Cardinality(IdsOf(InputTable)))

\* more distinct ids than the cap, and exactly cap entries returned
C4_Witness ==
    /\ Succeeded
    /\ call.top_n > 0
    /\ Cardinality(IdsOf(InputTable)) > call.top_n
    /\ Len(export_list) = call.top_n

\* C5: the metadata keys of an entry are exactly the configured key fields
\* present on the entry's own source record; a field the record lacks is
\* omitted, not emitted with a placeholder.
C5_OnlyFieldsOfOwnRecord ==
    Succeeded =>
        \A n \in 1..Len(export_list) :
            Keys(export_list[n].fields) =
                {k \in Elems(call.key_fields) :
                    k \in Keys(batch[selected_idx[n] + 1].meta) \cup {"id"}}

\* C6: an empty collection is a normal outcome: its profile has num_records 0
\* and a null dimensionality, its row sequence is empty, and the export of
\* that result returns an empty list without raising.
C6_EmptyBatchIsNormal ==
    batch = <<>> =>
        /\ pc # "start" =>
            /\ <<"num_records", 0>> \in profile
            /\ <<"embedding_dim", None>> \in profile
            /\ df.rows = <<>>
        /\ pc \in {"exported", "main_done"} =>
            /\ err = NoError
            /\ export_list = <<>>

\* C10: the end-to-end run exports only records with real documents: every
\* entry's document is non-null and non-empty.
C10_MainExportsOnlyRealDocuments ==
    (pc = "main_done" /\ err = NoError) =>
        \A n \in 1..Len(export_list) :
            /\ export_list[n].document # None
            /\ export_list[n].document # ""

-----------------------------------------------------------------------------
(* Properties of the similarity helpers, checked under SpecSim *)

\* record i ranks before record j: higher similarity, or equal and earlier
RanksBefore(i, j) ==
    \/ ScoreLess(scored[j], scored[i])
    \/ (scored[i] = scored[j] /\ i < j)

ResultIds == {result[n].id : n \in 1..Len(result)}

\* C7: for k >= 0 the result is the first min(k, |batch|) records of the
\* batch ranked by non-increasing similarity, equal similarities in batch
\* order: the whole batch when k >= |batch|, nothing for an empty batch.
C7_TopKStableRanking ==
    (pc = "sim_done" /\ top_k >= 0) =>
        /\ Len(result) = Min(top_k, Len(records))
        /\ \A n \in 1..Len(result) :
            /\ result[n].id \in 1..Len(records)
            /\ result[n] = records[result[n].id]
        /\ \A n, m \in 1..Len(result) :
            n < m => RanksBefore(result[n].id, result[m].id)
        /\ \A n \in 1..Len(result) :
            \A j \in (1..Len(records)) \ ResultIds : RanksBefore(result[n].id, j)

\* k exceeds the batch size, two records tie, the whole batch is returned
C7_Witness ==
    /\ pc = "sim_done"
    /\ top_k > Len(records)
    /\ Len(result) = Len(records)
    /\ \E i, j \in 1..Len(records) :
        /\ i < j
        /\ scored[i] = scored[j]
        /\ \E l \in 1..Len(records) : ScoreLess(scored[i], scored[l]) /\ i < l

PairwiseDistinctVectors ==
    \A i, j \in 1..Len(records) : i # j => records[i].vector # records[j].vector

IsZeroVector(v) == \A c \in 1..Len(v) : v[c] = 0

\* v is a positive multiple of u (two components)
SameDirection(u, v) == u[1] * v[2] = u[2] * v[1] /\ u[1] * v[1] + u[2] * v[2] > 0

PairwiseDistinctDirections ==
    /\ \A i \in 1..Len(records) : ~IsZeroVector(records[i].vector)
    /\ \A i, j \in 1..Len(records) :
        i # j => ~SameDirection(records[i].vector, records[j].vector)

\* C8: in a batch of pairwise distinct vectors, the top-1 result for a
\* record's own vector is that record.
C8_SelfIsTopAmongDistinctVectors ==
    (pc = "sim_done" /\ top_k = 1 /\ PairwiseDistinctVectors) =>
        \A i \in 1..Len(records) :
            records[i].vector = query => result = <<records[i]>>

\* C8 (amended): in a batch of non-zero vectors no two of which point in
\* the same direction, the top-1 result for a record's own vector is that
\* record.
C8_SelfIsTopAmongDistinctDirections ==
    (pc = "sim_done" /\ top_k = 1 /\ PairwiseDistinctDirections) =>
        \A i \in 1..Len(records) :
            records[i].vector = query => result = <<records[i]>>

\* the query is the vector of a record that is not the first of the batch
C8_Witness ==
    /\ pc = "sim_done"
    /\ top_k = 1
    /\ PairwiseDistinctDirections
    /\ Len(records) >= 3
    /\ records[3].vector = query
    /\ result = <<records[3]>>

\* C9: cosine_similarity is exactly 0.0 when either vector has zero
\* magnitude and is never undefined, so every record of a ranked batch has
\* a defined score.
C9_ZeroMagnitudeGivesZero ==
    /\ pc = "cos_done" =>
        /\ sim.value.den > 0
        /\ (IsZeroVector(sim.v1) \/ IsZeroVector(sim.v2)) => sim.value = Zero
    /\ pc = "sim_done" =>
        \A i \in 1..Len(records) :
            /\ scored[i].den > 0
            /\ (IsZeroVector(query) \/ IsZeroVector(records[i].vector)) =>
                    scored[i] = Zero

\* the zero vector compared with itself
C9_Witness ==
    /\ pc = "cos_done"
    /\ IsZeroVector(sim.v1)
    /\ sim.v2 = sim.v1
    /\ sim.value = Zero
====
